---- MODULE Spec2Model ----
(***************************************************************************)
(* Model of bot.py: the startup sequence (get_env_var, create_client,      *)
(* main), the /ask command handler and the request adapter                 *)
(* call_local_llm.                                                         *)
(*                                                                         *)
(* A Python str is a sequence of one-character strings, so that slicing,   *)
(* strip, rstrip, concatenation and json.dumps are computed character by   *)
(* character.  A parsed JSON value is a record [t, s, n, items] where t is *)
(* the type tag, s the text of a string, n the value of a number and items *)
(* the members of an object (key k, value v) or of a list (value v).       *)
(***************************************************************************)
EXTENDS Integers, Sequences, FiniteSets, TLC

\* Number of /ask invocations dispatched by the gateway in one run.
NumInv == 2

Inv == 1..NumInv

\* text[:1900] (bot.py:116) and json.dumps(...)[:1900] (bot.py:82)
Limit == 1900

\* resp.status != 200 (bot.py:74)
HttpOk == 200

\* aiohttp.ClientTimeout(total=120) (bot.py:71)
ClientTimeoutTotal == 120

\* json.dumps(data, indent=2) (bot.py:82)
Indent == 2

----------------------------------------------------------------------------
\* String literals of the program.

ErrPrefix == <<"E","r","r","o","r"," ","c","o","m","m","u","n","i","c","a","t","i","n","g"," ","w","i","t","h"," ","l","o","c","a","l"," ","m","o","d","e","l",":"," ">>

ServerReturned == <<"L","L","M"," ","s","e","r","v","e","r"," ","r","e","t","u","r","n","e","d"," ">>

ColonSpace == <<":"," ">>

ApiChat == <<"/","a","p","i","/","c","h","a","t">>

NoContent == <<"(","n","o"," ","c","o","n","t","e","n","t",")">>

MessageKey == <<"m","e","s","s","a","g","e">>

ContentKey == <<"c","o","n","t","e","n","t">>

EnvNames == <<"DISCORD_TOKEN", "LLM_BASE_URL", "LLM_MODEL">>

----------------------------------------------------------------------------
\* Python str operations.

Min(a, b) == IF a < b THEN a ELSE b

\* s[:n]
Take(s, n) == SubSeq(s, 1, Min(Len(s), n))

\* Characters str.strip() removes (the whitespace of the modelled alphabet).
Whitespace == {" ", "\n", "\t", "\r"}

\* Positions of s holding a character outside cs.
Keep(s, cs) == {k \in 1..Len(s) : s[k] \notin cs}

First(S) == CHOOSE k \in S : \A m \in S : k <= m

Last(S) == CHOOSE k \in S : \A m \in S : m <= k

\* s.lstrip(), the faulty variant of Strip that keeps trailing whitespace.
LStripOnly(s) == IF Keep(s, Whitespace) = {} THEN <<>> ELSE SubSeq(s, First(Keep(s, Whitespace)), Len(s))

\* s.strip()
Strip(s) == IF Keep(s, Whitespace) = {} THEN <<>> ELSE SubSeq(s, First(Keep(s, Whitespace)), Last(Keep(s, Whitespace)))

\* s.rstrip('/')
RStripSlash(s) == IF Keep(s, {"/"}) = {} THEN <<>> ELSE SubSeq(s, 1, Last(Keep(s, {"/"})))

Digits == <<"0","1","2","3","4","5","6","7","8","9">>

RECURSIVE NatToStr(_)
NatToStr(n) == IF n < 10 THEN <<Digits[n + 1]>> ELSE NatToStr(n \div 10) \o <<Digits[(n % 10) + 1]>>

\* str(n) / f"{n}" of an int
IntToStr(n) == IF n < 0 THEN <<"-">> \o NatToStr(0 - n) ELSE NatToStr(n)

\* n copies of the character c
Rep(c, n) == [k \in 1..n |-> c]

----------------------------------------------------------------------------
\* JSON values and json.dumps(data, indent=2).

JNull == [t |-> "null", s |-> <<>>, n |-> 0, items |-> <<>>]

JTrue == [t |-> "true", s |-> <<>>, n |-> 0, items |-> <<>>]

JStr(x) == [t |-> "str", s |-> x, n |-> 0, items |-> <<>>]

JNum(x) == [t |-> "num", s |-> <<>>, n |-> x, items |-> <<>>]

JArr(xs) == [t |-> "arr", s |-> <<>>, n |-> 0, items |-> xs]

JObj(kvs) == [t |-> "obj", s |-> <<>>, n |-> 0, items |-> kvs]

\* A member of an object; a member of a list has the empty key.
KV(key, val) == [k |-> key, v |-> val]

\* The escape json.dumps writes for one character.
EscapeChar(c) ==
    CASE c = "\"" -> <<"\\", "\"">>
      [] c = "\\" -> <<"\\", "\\">>
      [] c = "\n" -> <<"\\", "n">>
      [] c = "\t" -> <<"\\", "t">>
      [] c = "\r" -> <<"\\", "r">>
      [] OTHER -> <<c>>

\* The escapes of the characters of s, in order (computed by halves).
RECURSIVE Escape(_)
Escape(s) ==
    IF s = <<>> THEN <<>>
    ELSE IF Len(s) = 1 THEN EscapeChar(s[1])
    ELSE Escape(SubSeq(s, 1, Len(s) \div 2)) \o Escape(SubSeq(s, (Len(s) \div 2) + 1, Len(s)))

Quote(s) == <<"\"">> \o Escape(s) \o <<"\"">>

NewlineIndent(level) == <<"\n">> \o Rep(" ", Indent * level)

RECURSIVE Dumps(_, _)
RECURSIVE DumpItems(_, _, _)
\* The members of a non-empty object or list, one per line at this level.
DumpItems(items, isObj, level) ==
    IF items = <<>> THEN <<>>
    ELSE NewlineIndent(level)
         \o (IF isObj THEN Quote(Head(items).k) \o ColonSpace ELSE <<>>)
         \o Dumps(Head(items).v, level)
         \o (IF Len(items) > 1 THEN <<",">> ELSE <<>>)
         \o DumpItems(Tail(items), isObj, level)

\* json.dumps(d, indent=2) of a value nested at the given level.
Dumps(d, level) ==
    CASE d.t = "null" -> <<"n","u","l","l">>
      [] d.t = "true" -> <<"t","r","u","e">>
      [] d.t = "num" -> IntToStr(d.n)
      [] d.t = "str" -> Quote(d.s)
      [] d.t = "arr" -> IF d.items = <<>> THEN <<"[","]">>
                        ELSE <<"[">> \o DumpItems(d.items, FALSE, level + 1) \o NewlineIndent(level) \o <<"]">>
      [] d.t = "obj" -> IF d.items = <<>> THEN <<"{","}">>
                        ELSE <<"{">> \o DumpItems(d.items, TRUE, level + 1) \o NewlineIndent(level) \o <<"}">>

\* key in d, for a dict d
HasKey(d, key) == \E k \in 1..Len(d.items) : d.items[k].k = key

\* d[key], for a dict d holding key
Get(d, key) == d.items[CHOOSE k \in 1..Len(d.items) : d.items[k].k = key].v

\* d[key] raises: TypeError unless d is a dict, KeyError when key is absent.
SubscriptRaises(d, key) == d.t # "obj" \/ ~HasKey(d, key)

----------------------------------------------------------------------------
\* Exceptions and the values of the environment.

Exc(type, msg) == [type |-> type, msg |-> msg]

NoExc == Exc("none", <<>>)

\* asyncio.TimeoutError raised when the total timeout expires; its str() is empty.
TimeoutError == Exc("TimeoutError", <<>>)

ClientConnectorError == Exc("ClientConnectorError", <<"C","a","n","n","o","t"," ","c","o","n","n","e","c","t"," ","t","o"," ","h","o","s","t">>)

ContentTypeError == Exc("ContentTypeError", <<"u","n","e","x","p","e","c","t","e","d"," ","m","i","m","e","t","y","p","e">>)

\* The exception classes that derive from Exception.
ExceptionClasses == {"RuntimeError", "TimeoutError", "ClientConnectorError", "ContentTypeError", "TypeError", "KeyError", "AttributeError"}

\* os.getenv(name): None when unset, else the value.
Unset == [set |-> FALSE, val |-> <<>>]

Value(v) == [set |-> TRUE, val |-> v]

\* get_env_var without the check: the faulty variant of GetEnvVarRaises.
GetEnvVarNeverRaises(e, name) == FALSE

\* get_env_var(name) raises EnvironmentError: `if not value`
GetEnvVarRaises(e, name) == ~e[name].set \/ e[name].val = <<>>

\* get_env_var(name) returns the value
GetEnvVar(e, name) == e[name].val

----------------------------------------------------------------------------
\* call_local_llm and ask, the parts that compute strings.

\* url = f"{base_url.rstrip('/')}/api/chat"
Url(base_url) == RStripSlash(base_url) \o ApiChat

\* payload = {"model": model, "messages": [{"role": "user", "content": prompt}], "stream": False}
Payload(model, p) == [model |-> model, messages |-> <<[role |-> "user", content |-> p]>>, stream |-> FALSE]

\* RuntimeError(f"LLM server returned {resp.status}: {body}")
RuntimeError(status, body) == Exc("RuntimeError", ServerReturned \o IntToStr(status) \o ColonSpace \o body)

\* resp.status != 200
IsErrorStatus(status) == status # HttpOk

\* data["message"]["content"].strip() raises: a subscript fails, or content has no strip().
ExtractRaises(data) ==
    \/ SubscriptRaises(data, MessageKey)
    \/ SubscriptRaises(Get(data, MessageKey), ContentKey)
    \/ Get(Get(data, MessageKey), ContentKey).t # "str"

\* The class of the exception data["message"]["content"].strip() raises.
ExtractExcType(data) ==
    IF data.t # "obj" THEN "TypeError"
    ELSE IF ~HasKey(data, MessageKey) THEN "KeyError"
    ELSE IF Get(data, MessageKey).t # "obj" THEN "TypeError"
    ELSE IF ~HasKey(Get(data, MessageKey), ContentKey) THEN "KeyError"
    ELSE "AttributeError"

\* The result of a call: a returned text or a raised exception.
Returned(t) == [raised |-> FALSE, exc |-> NoExc, text |-> t]

Raised(e) == [raised |-> TRUE, exc |-> e, text |-> <<>>]

\* `except KeyError` in place of `except Exception`: the faulty variant of Extract.
ExtractKeyErrorOnly(data) ==
    IF ~ExtractRaises(data) THEN Returned(Strip(Get(Get(data, MessageKey), ContentKey).s))
    ELSE IF ExtractExcType(data) = "KeyError" THEN Returned(Take(Dumps(data, 0), Limit))
    ELSE Raised(Exc("TypeError", <<>>))

\* try: return data["message"]["content"].strip()
\* except Exception: return json.dumps(data, indent=2)[:1900]
Extract(data) ==
    IF ExtractRaises(data) THEN Returned(Take(Dumps(data, 0), Limit))
    ELSE Returned(Strip(Get(Get(data, MessageKey), ContentKey).s))

\* `except RuntimeError` in place of `except Exception`: the faulty variant of Caught.
CaughtRuntimeErrorOnly(e) == e.type = "RuntimeError"

\* `except Exception as e` catches e
Caught(e) == e.type \in ExceptionClasses

\* The message without the prefix: the faulty variant of ErrorText.
ErrorTextNoPrefix(e) == e.msg

\* text = f"Error communicating with local model: {e}"
ErrorText(e) == ErrPrefix \o e.msg

\* text[:1900] without the placeholder: the faulty variant of Outbound.
OutboundNoPlaceholder(t) == Take(t, Limit)

\* text[:1900] or "(no content)"
Outbound(t) == IF Take(t, Limit) = <<>> THEN NoContent ELSE Take(t, Limit)

----------------------------------------------------------------------------
\* State.

VARIABLES
    env,        \* the process environment: name -> os.getenv(name)
    spc,        \* position of the startup sequence (main, create_client)
    fatal,      \* the variable named by the EnvironmentError that ended startup, or "none"
    client,     \* discord.Client has been constructed
    commands,   \* names of the commands registered on the tree
    config,     \* base_url and model captured by the ask closure
    pc,         \* position of each invocation of ask
    prompt,     \* the prompt argument of each invocation
    request,    \* url and payload built by call_local_llm
    session,    \* the aiohttp.ClientSession of each invocation
    outcome,    \* what the backend did with each invocation's request
    text,       \* the local `text` of each invocation of ask
    sent,       \* the texts passed to interaction.followup.send, in order
    log         \* the gateway and backend events of each invocation, in order

vars == <<env, spc, fatal, client, commands, config, pc, prompt, request, session, outcome, text, sent, log>>

startupVars == <<spc, fatal, client, commands, config>>

handlerVars == <<pc, prompt, request, session, outcome, text, sent, log>>

NoConfig == [base_url |-> <<>>, model |-> <<>>]

NoRequest == [url |-> <<>>, payload |-> Payload(<<>>, <<>>)]

NoSession == [state |-> "none", total |-> 0]

\* What the backend did: kind is "none", "transport" (the POST raised exc),
\* "status" (the response head arrived), "error_body" (non-200, body read),
\* "read_failed" (reading the body raised exc), "json" (200, body parsed to data).
NoOutcome == [kind |-> "none", status |-> 0, body |-> <<>>, data |-> JNull, exc |-> NoExc]

InitHandlers ==
    /\ pc = [i \in Inv |-> "idle"]
    /\ prompt = [i \in Inv |-> <<>>]
    /\ request = [i \in Inv |-> NoRequest]
    /\ session = [i \in Inv |-> NoSession]
    /\ outcome = [i \in Inv |-> NoOutcome]
    /\ text = [i \in Inv |-> <<>>]
    /\ sent = [i \in Inv |-> <<>>]
    /\ log = [i \in Inv |-> <<>>]

InitStartup ==
    /\ spc = "create_client"
    /\ fatal = "none"
    /\ client = FALSE
    /\ commands = {}
    /\ config = NoConfig

----------------------------------------------------------------------------
\* Startup: main and create_client.

\* raise EnvironmentError(f"Missing required environment variable: {name}")
Fail(name) ==
    /\ spc' = "failed"
    /\ fatal' = name
    /\ UNCHANGED <<client, commands, config>>

\* discord_token = get_env_var("DISCORD_TOKEN")
ReadDiscordToken ==
    /\ spc = "create_client"
    /\ IF GetEnvVarRaises(env, "DISCORD_TOKEN") THEN Fail("DISCORD_TOKEN")
       ELSE spc' = "read_base_url" /\ UNCHANGED <<fatal, client, commands, config>>
    /\ UNCHANGED <<env, handlerVars>>

\* base_url = get_env_var("LLM_BASE_URL")
ReadBaseUrl ==
    /\ spc = "read_base_url"
    /\ IF GetEnvVarRaises(env, "LLM_BASE_URL") THEN Fail("LLM_BASE_URL")
       ELSE /\ spc' = "read_model"
            /\ config' = [config EXCEPT !.base_url = GetEnvVar(env, "LLM_BASE_URL")]
            /\ UNCHANGED <<fatal, client, commands>>
    /\ UNCHANGED <<env, handlerVars>>

\* model = get_env_var("LLM_MODEL")
ReadModel ==
    /\ spc = "read_model"
    /\ IF GetEnvVarRaises(env, "LLM_MODEL") THEN Fail("LLM_MODEL")
       ELSE /\ spc' = "construct"
            /\ config' = [config EXCEPT !.model = GetEnvVar(env, "LLM_MODEL")]
            /\ UNCHANGED <<fatal, client, commands>>
    /\ UNCHANGED <<env, handlerVars>>

\* client = discord.Client(intents=intents); tree = app_commands.CommandTree(client)
ConstructClient ==
    /\ spc = "construct"
    /\ client' = TRUE
    /\ spc' = "register"
    /\ UNCHANGED <<env, fatal, commands, config, handlerVars>>

\* @tree.command(name="ask", ...); return client, tree
RegisterAsk ==
    /\ spc = "register"
    /\ commands' = commands \cup {"ask"}
    /\ spc' = "main_token"
    /\ UNCHANGED <<env, fatal, client, config, handlerVars>>

\* token = get_env_var("DISCORD_TOKEN"), in main
MainReadToken ==
    /\ spc = "main_token"
    /\ IF GetEnvVarRaises(env, "DISCORD_TOKEN") THEN Fail("DISCORD_TOKEN")
       ELSE spc' = "run" /\ UNCHANGED <<fatal, client, commands, config>>
    /\ UNCHANGED <<env, handlerVars>>

\* client.run(token): connect to the gateway and serve events
Run ==
    /\ spc = "run"
    /\ spc' = "running"
    /\ UNCHANGED <<env, fatal, client, commands, config, handlerVars>>

Startup == ReadDiscordToken \/ ReadBaseUrl \/ ReadModel \/ ConstructClient \/ RegisterAsk \/ MainReadToken \/ Run

----------------------------------------------------------------------------
\* The /ask handler (ask) and the adapter it awaits (call_local_llm).

Event(i, e) == [log EXCEPT ![i] = Append(@, e)]

\* `text` kept in one module-level variable: the faulty variant of SetText.
SetTextShared(i, t) == [j \in Inv |-> t]

\* text = ..., a local of invocation i
SetText(i, t) == [text EXCEPT ![i] = t]

\* A session closed only on the normal path: the faulty variant of SessionOnExit.
SessionOnExitLeaky(i, raised) == IF raised THEN session ELSE [session EXCEPT ![i].state = "closed"]

\* Leaving `async with aiohttp.ClientSession(...) as session`, normally or by an exception.
SessionOnExit(i, raised) == [session EXCEPT ![i].state = "closed"]

\* try: text = await call_local_llm(...) ended by exception e:
\* except Exception as e: text = f"Error communicating with local model: {e}"
HandleRaise(i, e) ==
    IF Caught(e)
    THEN /\ text' = SetText(i, ErrorText(e))
         /\ pc' = [pc EXCEPT ![i] = "reply"]
    ELSE /\ pc' = [pc EXCEPT ![i] = "crashed"]
         /\ UNCHANGED text

\* The gateway dispatches /ask with prompt p to a new task.
Invoke(i, p) ==
    /\ spc = "running"
    /\ "ask" \in commands
    /\ pc[i] = "idle"
    /\ pc' = [pc EXCEPT ![i] = "invoked"]
    /\ prompt' = [prompt EXCEPT ![i] = p]
    /\ UNCHANGED <<env, startupVars, request, session, outcome, text, sent, log>>

\* await interaction.response.defer(thinking=True)
Defer(i) ==
    /\ pc[i] = "invoked"
    /\ pc' = [pc EXCEPT ![i] = "deferred"]
    /\ log' = Event(i, "ack")
    /\ UNCHANGED <<env, startupVars, prompt, request, session, outcome, text, sent>>

\* defer raises (the interaction expired): the exception leaves ask, outside its try.
DeferRaises(i) ==
    /\ pc[i] = "invoked"
    /\ pc' = [pc EXCEPT ![i] = "crashed"]
    /\ UNCHANGED <<env, startupVars, prompt, request, session, outcome, text, sent, log>>

\* call_local_llm up to `async with aiohttp.ClientSession(timeout=timeout) as session`
OpenSession(i) ==
    /\ pc[i] = "deferred"
    /\ request' = [request EXCEPT ![i] = [url |-> Url(config.base_url), payload |-> Payload(config.model, prompt[i])]]
    /\ session' = [session EXCEPT ![i] = [state |-> "open", total |-> ClientTimeoutTotal]]
    /\ pc' = [pc EXCEPT ![i] = "opened"]
    /\ UNCHANGED <<env, startupVars, prompt, outcome, text, sent, log>>

\* session.post(url, json=payload): the request goes out, the task awaits the response.
Post(i) ==
    /\ pc[i] = "opened"
    /\ log' = Event(i, "post")
    /\ pc' = [pc EXCEPT ![i] = "posting"]
    /\ UNCHANGED <<env, startupVars, prompt, request, session, outcome, text, sent>>

\* A failed POST sent again: the faulty variant of PostRaises.
PostRaisesRetry(i, e) ==
    /\ pc[i] = "posting"
    /\ Len(log[i]) < 4
    /\ outcome' = [outcome EXCEPT ![i] = [NoOutcome EXCEPT !.kind = "transport", !.exc = e]]
    /\ log' = Event(i, "post")
    /\ UNCHANGED <<env, startupVars, pc, prompt, request, session, text, sent>>

\* The POST raises e (connection failure, or the total timeout expires).
PostRaises(i, e) ==
    /\ pc[i] = "posting"
    /\ outcome' = [outcome EXCEPT ![i] = [NoOutcome EXCEPT !.kind = "transport", !.exc = e]]
    /\ session' = SessionOnExit(i, TRUE)
    /\ HandleRaise(i, e)
    /\ UNCHANGED <<env, startupVars, prompt, request, sent, log>>

\* The response head arrives with status st.
PostReturns(i, st) ==
    /\ pc[i] = "posting"
    /\ outcome' = [outcome EXCEPT ![i] = [NoOutcome EXCEPT !.kind = "status", !.status = st]]
    /\ pc' = [pc EXCEPT ![i] = "responded"]
    /\ UNCHANGED <<env, startupVars, prompt, request, session, text, sent, log>>

\* if resp.status != 200: body = await resp.text(); raise RuntimeError(...)
ReadErrorBody(i, b) ==
    /\ pc[i] = "responded"
    /\ IsErrorStatus(outcome[i].status)
    /\ outcome' = [outcome EXCEPT ![i].kind = "error_body", ![i].body = b]
    /\ session' = SessionOnExit(i, TRUE)
    /\ HandleRaise(i, RuntimeError(outcome[i].status, b))
    /\ UNCHANGED <<env, startupVars, prompt, request, sent, log>>

\* data = await resp.json(), then the extraction after the session is left
ReadJson(i, d) ==
    /\ pc[i] = "responded"
    /\ ~IsErrorStatus(outcome[i].status)
    /\ outcome' = [outcome EXCEPT ![i].kind = "json", ![i].data = d]
    /\ session' = SessionOnExit(i, FALSE)
    /\ IF Extract(d).raised THEN HandleRaise(i, Extract(d).exc)
       ELSE /\ text' = SetText(i, Extract(d).text)
            /\ pc' = [pc EXCEPT ![i] = "reply"]
    /\ UNCHANGED <<env, startupVars, prompt, request, sent, log>>

\* await resp.text() or await resp.json() raises e (the body is not JSON, or the timeout expires).
ReadRaises(i, e) ==
    /\ pc[i] = "responded"
    /\ outcome' = [outcome EXCEPT ![i].kind = "read_failed", ![i].exc = e]
    /\ session' = SessionOnExit(i, TRUE)
    /\ HandleRaise(i, e)
    /\ UNCHANGED <<env, startupVars, prompt, request, sent, log>>

\* A follow-up that leaves the handler able to reply again: the faulty variant of Send.
SendAgain(i) ==
    /\ pc[i] = "reply"
    /\ Len(sent[i]) < 2
    /\ sent' = [sent EXCEPT ![i] = Append(@, Outbound(text[i]))]
    /\ log' = Event(i, "followup")
    /\ UNCHANGED <<env, startupVars, pc, prompt, request, session, outcome, text>>

\* await interaction.followup.send(text[:1900] or "(no content)")
Send(i) ==
    /\ pc[i] = "reply"
    /\ sent' = [sent EXCEPT ![i] = Append(@, Outbound(text[i]))]
    /\ log' = Event(i, "followup")
    /\ pc' = [pc EXCEPT ![i] = "done"]
    /\ UNCHANGED <<env, startupVars, prompt, request, session, outcome, text>>

\* The steps the event loop takes for invocation i once it is dispatched.
Step(i, posts, statuses, bodies, datas, reads) ==
    \/ Defer(i)
    \/ DeferRaises(i)
    \/ OpenSession(i)
    \/ Post(i)
    \/ \E e \in posts : PostRaises(i, e)
    \/ \E st \in statuses : PostReturns(i, st)
    \/ \E b \in bodies : ReadErrorBody(i, b)
    \/ \E d \in datas : ReadJson(i, d)
    \/ \E e \in reads : ReadRaises(i, e)
    \/ Send(i)

----------------------------------------------------------------------------
\* Inputs: environments, prompts and backend behaviours.

Hi == <<"h","i">>

Overloaded == <<"o","v","e","r","l","o","a","d","e","d">>

Paris == <<"P","a","r","i","s">>

\* {"message": {"content": c}}
Answer(c) == JObj(<<KV(MessageKey, JObj(<<KV(ContentKey, c)>>))>>)

\* The values a variable of the environment can have at startup.
EnvValues(name) ==
    IF name = "LLM_BASE_URL"
    THEN {Unset, Value(<<>>), Value(<<"h","t","t","p",":","/","/","h","/">>)}
    ELSE {Unset, Value(<<>>), Value(<<"x">>)}

\* With a base URL that has no trailing slash, too.
EnvValuesSeq(name) ==
    IF name = "LLM_BASE_URL"
    THEN EnvValues(name) \cup {Value(<<"h","t","t","p",":","/","/","h">>), Value(<<"h","/","/">>)}
    ELSE EnvValues(name)

Prompts == {<<>>, Hi}

Statuses == {200, 500}

StatusesSeq == {200, 201, 404, 500}

PostErrors == {TimeoutError}

PostErrorsSeq == {TimeoutError, ClientConnectorError, Exc("ClientConnectorError", Rep("e", Limit))}

ReadErrors == {TimeoutError}

ReadErrorsSeq == {TimeoutError, ContentTypeError}

ErrorBodies == {Overloaded}

ErrorBodiesSeq == {Overloaded, <<>>, <<" ">>, Rep("x", Limit)}

Datas == {Answer(JStr(<<" "," ">> \o Paris \o <<" "," ">>)), Answer(JStr(<<" ">>)), JObj(<<>>)}

DatasSeq ==
    Datas \cup
    { Answer(JStr(<<>>)),
      Answer(JStr(<<" ", "\n", "\t", "\r">>)),
      Answer(JStr(<<"\n">> \o Hi \o <<" ">> \o Hi \o <<"\t">>)),
      Answer(JStr(Rep("a", Limit + 1))),
      Answer(JStr(<<" ">> \o Rep("a", Limit) \o <<" ">>)),
      Answer(JStr(Rep("a", Limit) \o <<" ", "b">>)),
      Answer(JNum(5)),
      Answer(JNull),
      Answer(JArr(<<KV(<<>>, JStr(Hi))>>)),
      JObj(<<KV(MessageKey, JObj(<<>>))>>),
      JObj(<<KV(MessageKey, JStr(Hi))>>),
      JObj(<<KV(ContentKey, JStr(Hi))>>),
      JObj(<<KV(MessageKey, JObj(<<KV(<<"r","o","l","e">>, JStr(Hi)), KV(ContentKey, JStr(Paris))>>)), KV(<<"d","o","n","e">>, JTrue)>>),
      JObj(<<KV(<<"e","r","r","o","r">>, JStr(Rep("a", Limit)))>>),
      JArr(<<>>),
      JArr(<<KV(<<>>, JNum(1)), KV(<<>>, JStr(<<"a", "\"", "b">>)), KV(<<>>, JObj(<<>>))>>),
      JStr(ErrPrefix),
      JNum(0 - 12),
      JNull }

----------------------------------------------------------------------------
\* Specifications.

\* Concurrent invocations over the small input sets.
Init ==
    /\ env \in [{EnvNames[k] : k \in 1..Len(EnvNames)} -> UNION {EnvValues(EnvNames[k]) : k \in 1..Len(EnvNames)}]
    /\ \A k \in 1..Len(EnvNames) : env[EnvNames[k]] \in EnvValues(EnvNames[k])
    /\ InitStartup
    /\ InitHandlers

Next ==
    \/ Startup
    \/ \E i \in Inv :
        \/ \E p \in Prompts : Invoke(i, p)
        \/ Step(i, PostErrors, Statuses, ErrorBodies, Datas, ReadErrors)

Spec == Init /\ [][Next]_vars

\* The event loop keeps scheduling every dispatched task, and every awaited
\* call completes, fails or times out.
Fairness == \A i \in Inv : WF_vars(Step(i, PostErrors, Statuses, ErrorBodies, Datas, ReadErrors))

FairSpec == Spec /\ Fairness

\* One invocation over the large input sets.
InitSeq ==
    /\ env \in [{EnvNames[k] : k \in 1..Len(EnvNames)} -> UNION {EnvValuesSeq(EnvNames[k]) : k \in 1..Len(EnvNames)}]
    /\ \A k \in 1..Len(EnvNames) : env[EnvNames[k]] \in EnvValuesSeq(EnvNames[k])
    /\ InitStartup
    /\ InitHandlers

NextSeq ==
    \/ Startup
    \/ \E p \in Prompts : Invoke(1, p)
    \/ Step(1, PostErrorsSeq, StatusesSeq, ErrorBodiesSeq, DatasSeq, ReadErrorsSeq)

SpecSeq == InitSeq /\ [][NextSeq]_vars

----------------------------------------------------------------------------
\* Vocabulary of the properties.

Acked(i) == \E k \in 1..Len(log[i]) : log[i][k] = "ack"

Count(i, e) == Cardinality({k \in 1..Len(log[i]) : log[i][k] = e})

Replied(i) == pc[i] = "done"

\* The backend call of invocation i ended in an error E.
BackendFailed(i) == outcome[i].kind \in {"transport", "read_failed", "error_body"}

\* Invocation i is inside `async with ClientSession`, awaiting the backend.
AwaitingBackend(i) == pc[i] \in {"opened", "posting", "responded"}

\* The body d has a string at message.content.
HasContentString(d) ==
    /\ d.t = "obj" /\ HasKey(d, MessageKey)
    /\ Get(d, MessageKey).t = "obj" /\ HasKey(Get(d, MessageKey), ContentKey)
    /\ Get(Get(d, MessageKey), ContentKey).t = "str"

ContentOf(d) == Get(Get(d, MessageKey), ContentKey).s

\* The number of whitespace characters c starts with, and ends with.
LeadingWs(c) == CHOOSE a \in 0..Len(c) : (\A k \in 1..a : c[k] \in Whitespace) /\ (a < Len(c) => c[a + 1] \notin Whitespace)

TrailingWs(c) == CHOOSE b \in 0..Len(c) : (\A k \in 1..b : c[Len(c) + 1 - k] \in Whitespace) /\ (b < Len(c) => c[Len(c) - b] \notin Whitespace)

\* c without its leading and trailing whitespace.
Stripped(c) == IF LeadingWs(c) = Len(c) THEN <<>> ELSE SubSeq(c, LeadingWs(c) + 1, Len(c) - TrailingWs(c))

\* A variable get_env_var treats as missing: unset, or set to the empty string.
Missing(name) == env[name] \in {Unset, Value(<<>>)}

StartsWith(s, pre) == Len(s) >= Len(pre) /\ SubSeq(s, 1, Len(pre)) = pre

Error500Overloaded == <<"E","r","r","o","r"," ","c","o","m","m","u","n","i","c","a","t","i","n","g"," ","w","i","t","h"," ","l","o","c","a","l"," ","m","o","d","e","l",":"," ","L","L","M"," ","s","e","r","v","e","r"," ","r","e","t","u","r","n","e","d"," ","5","0","0",":"," ","o","v","e","r","l","o","a","d","e","d">>

PrettyContent5 == <<"{","\n"," "," ","\"","m","e","s","s","a","g","e","\"",":"," ","{","\n"," "," "," "," ","\"","c","o","n","t","e","n","t","\"",":"," ","5","\n"," "," ","}","\n","}">>

\* The text ask computes from what the backend did, and the reply it sends.
TextFor(o) ==
    CASE o.kind \in {"transport", "read_failed"} -> ErrorText(o.exc)
      [] o.kind = "error_body" -> ErrorText(RuntimeError(o.status, o.body))
      [] o.kind = "json" -> IF Extract(o.data).raised THEN ErrorText(Extract(o.data).exc) ELSE Extract(o.data).text

ReplyFor(o) == Outbound(TextFor(o))

----------------------------------------------------------------------------
\* Properties.

\* C1: whatever the prompt and the backend outcome, every text passed to
\* followup.send is non-empty and at most 1900 characters long, and when the
\* text computed before sending is empty the literal "(no content)" is sent.
ReplyNonEmptyBounded ==
    \A i \in Inv : \A k \in 1..Len(sent[i]) :
        /\ sent[i][k] # <<>>
        /\ Len(sent[i][k]) <= Limit
        /\ text[i] = <<>> => sent[i][k] = NoContent

\* An empty prompt answered by a text longer than the limit, sent cut to the limit.
ReplyNonEmptyBoundedWitness ==
    \E i \in Inv : Replied(i) /\ prompt[i] = <<>> /\ Len(text[i]) > Limit /\ sent[i] = <<SubSeq(text[i], 1, Limit)>>

\* C2: the events of an invocation occur in the order acknowledgment, backend
\* request, follow-up; no request goes out before the acknowledgment and at
\* most one follow-up is sent, on the success path and on every failure path.
AckPostFollowupOrder ==
    \A i \in Inv :
        /\ log[i] \in {<<>>, <<"ack">>, <<"ack", "post">>, <<"ack", "post", "followup">>}
        /\ Len(sent[i]) <= 1
        /\ Len(sent[i]) = Count(i, "followup")

\* A failed backend call answered by the one follow-up, after the acknowledgment and the request.
AckPostFollowupOrderWitness ==
    \E i \in Inv : BackendFailed(i) /\ log[i] = <<"ack", "post", "followup">> /\ Len(sent[i]) = 1

\* C3: every acknowledged invocation eventually has its follow-up sent, and no
\* acknowledged invocation ends with an exception leaving the handler.
AckLeadsToFollowup ==
    \A i \in Inv : (Acked(i) ~> (Replied(i) /\ Len(sent[i]) = 1)) /\ [](Acked(i) => pc[i] # "crashed")

\* A timed-out backend call whose invocation was answered.
AckLeadsToFollowupWitness ==
    \E i \in Inv : Acked(i) /\ Replied(i) /\ outcome[i].exc = TimeoutError /\ Len(sent[i]) = 1

\* C4: when the backend call fails with error E the reply is the prefix
\* "Error communicating with local model: " followed by the message of E, cut
\* to 1900 characters; for a non-200 status S with body B the message is
\* "LLM server returned S: B", and 500 with "overloaded" gives the exact text.
ErrorReply ==
    \A i \in Inv : Replied(i) =>
        /\ outcome[i].kind \in {"transport", "read_failed"} =>
              sent[i] = <<Take(ErrPrefix \o outcome[i].exc.msg, Limit)>>
        /\ outcome[i].kind = "error_body" =>
              sent[i] = <<Take(ErrPrefix \o ServerReturned \o IntToStr(outcome[i].status) \o ColonSpace \o outcome[i].body, Limit)>>
        /\ (outcome[i].kind = "error_body" /\ outcome[i].status = 500 /\ outcome[i].body = Overloaded) =>
              sent[i] = <<Error500Overloaded>>

\* HTTP 500 with body "overloaded" answered.
ErrorReplyWitness ==
    \E i \in Inv : Replied(i) /\ outcome[i].kind = "error_body" /\ outcome[i].status = 500
                   /\ outcome[i].body = Overloaded /\ sent[i] = <<Error500Overloaded>>

\* C5, as stated: for every string content C of a well-formed 200 body the
\* reply equals C stripped and then cut to 1900 characters.
ContentReplyAlways ==
    \A i \in Inv : (Replied(i) /\ outcome[i].kind = "json" /\ HasContentString(outcome[i].data)) =>
        sent[i] = <<Take(Stripped(ContentOf(outcome[i].data)), Limit)>>

\* C5, amended: the reply equals C stripped and then cut to 1900 characters
\* when that is non-empty, and is "(no content)" when C is empty or all
\* whitespace; content "  Paris  " gives exactly "Paris".
ContentReply ==
    \A i \in Inv : (Replied(i) /\ outcome[i].kind = "json" /\ HasContentString(outcome[i].data)) =>
        /\ Stripped(ContentOf(outcome[i].data)) # <<>> =>
              sent[i] = <<Take(Stripped(ContentOf(outcome[i].data)), Limit)>>
        /\ Stripped(ContentOf(outcome[i].data)) = <<>> => sent[i] = <<NoContent>>
        /\ ContentOf(outcome[i].data) = <<" ", " ">> \o Paris \o <<" ", " ">> => sent[i] = <<Paris>>

\* Content "  Paris  " answered by "Paris".
ContentReplyWitness ==
    \E i \in Inv : Replied(i) /\ outcome[i].kind = "json" /\ HasContentString(outcome[i].data)
                   /\ ContentOf(outcome[i].data) = <<" ", " ">> \o Paris \o <<" ", " ">> /\ sent[i] = <<Paris>>

\* C6: a 200 body without a string at message.content is answered by its
\* pretty-printed JSON cut to 1900 characters, never by a text carrying the
\* error prefix; the body {} is answered by "{}".
FallbackReply ==
    \A i \in Inv : (Replied(i) /\ outcome[i].kind = "json" /\ ~HasContentString(outcome[i].data)) =>
        /\ sent[i] = <<Take(Dumps(outcome[i].data, 0), Limit)>>
        /\ ~StartsWith(sent[i][1], ErrPrefix)
        /\ outcome[i].data = JObj(<<>>) => sent[i] = << <<"{", "}">> >>
        /\ outcome[i].data = Answer(JNum(5)) => sent[i] = <<PrettyContent5>>

\* A body that is not an object answered by its JSON.
FallbackReplyWitness ==
    \E i \in Inv : Replied(i) /\ outcome[i].kind = "json" /\ outcome[i].data = JArr(<<>>) /\ sent[i] = << <<"[", "]">> >>

\* C7: with a required variable missing, startup ends with the error naming
\* the first missing one in the order DISCORD_TOKEN, LLM_BASE_URL, LLM_MODEL,
\* before the client is constructed, the command registered or client.run
\* reached; the gateway connection is attempted only with all three present.
StartupNeedsEnv ==
    /\ (\E k \in 1..Len(EnvNames) : Missing(EnvNames[k])) =>
          /\ ~client /\ commands = {} /\ spc \notin {"register", "main_token", "run", "running"}
          /\ \A i \in Inv : pc[i] = "idle"
    /\ spc = "failed" =>
          \E k \in 1..Len(EnvNames) :
              /\ fatal = EnvNames[k] /\ Missing(EnvNames[k])
              /\ \A m \in 1..(k - 1) : ~Missing(EnvNames[m])
    /\ spc = "read_base_url" => ~Missing("DISCORD_TOKEN")
    /\ spc = "read_model" => ~Missing("DISCORD_TOKEN") /\ ~Missing("LLM_BASE_URL")
    /\ spc \in {"run", "running"} => \A k \in 1..Len(EnvNames) : env[EnvNames[k]].set /\ ~Missing(EnvNames[k])
    /\ fatal # "none" => spc = "failed"

\* Two variables missing, the first of them named.
StartupNeedsEnvWitness ==
    /\ spc = "failed" /\ fatal = "LLM_BASE_URL" /\ ~env["LLM_BASE_URL"].set /\ ~env["LLM_MODEL"].set
    /\ ~client /\ commands = {}

\* C8: an invocation issues at most one POST; after a failure of any kind no
\* second request goes out and the failure is reported once.
AtMostOnePost ==
    \A i \in Inv :
        /\ Count(i, "post") <= 1
        /\ (Replied(i) /\ (BackendFailed(i) \/ (outcome[i].kind = "json" /\ ~HasContentString(outcome[i].data)))) =>
              Count(i, "post") = 1 /\ Count(i, "followup") = 1

\* A timed-out POST reported once, after one request.
AtMostOnePostWitness ==
    \E i \in Inv : Replied(i) /\ outcome[i].kind = "transport" /\ Count(i, "post") = 1 /\ Len(sent[i]) = 1

\* C9: the session of a call is closed on every exit path before the
\* follow-up is sent; the open sessions never outnumber the invocations
\* awaiting the backend, and none is open once its invocation has replied.
SessionsClosed ==
    /\ \A i \in Inv :
        /\ session[i].state = "open" => AwaitingBackend(i)
        /\ pc[i] \in {"reply", "done"} => session[i].state = "closed"
        /\ Count(i, "followup") > 0 => session[i].state = "closed"
    /\ Cardinality({i \in Inv : session[i].state = "open"}) <= Cardinality({i \in Inv : AwaitingBackend(i)})

\* One invocation has replied to a failed call, its session closed, while another holds its session open.
SessionsClosedWitness ==
    \E i, j \in Inv : /\ Replied(i) /\ BackendFailed(i) /\ session[i].state = "closed"
                      /\ session[j].state = "open" /\ pc[j] = "responded"

\* C10: the request and the reply of an invocation are determined by its own
\* prompt, the backend's response to its own request and the configuration
\* read at startup, under every interleaving; no invocation changes the
\* configuration.
InvocationsIndependent ==
    /\ \A i \in Inv :
        /\ pc[i] = "reply" => text[i] = TextFor(outcome[i])
        /\ Replied(i) => sent[i] = <<ReplyFor(outcome[i])>>
        /\ pc[i] \in {"opened", "posting", "responded", "reply", "done"} =>
              request[i] = [url |-> Url(config.base_url), payload |-> Payload(config.model, prompt[i])]
    /\ spc = "running" => config = [base_url |-> env["LLM_BASE_URL"].val, model |-> env["LLM_MODEL"].val]

\* Two invocations with different prompts and outcomes: one has replied while the other still holds its own text.
InvocationsIndependentWitness ==
    \E i, j \in Inv : /\ pc[i] = "reply" /\ Replied(j)
                      /\ prompt[i] # prompt[j] /\ outcome[i] # outcome[j]
                      /\ text[i] # text[j] /\ sent[j] = <<ReplyFor(outcome[j])>>

====
